---- MODULE Spec2Model ----
(***************************************************************************)
(* Model of the multi-service agent deployment of Mandala-CLI:             *)
(* agentDeployMultiService (src/src/agent.ts) with topologicalSortServices, *)
(* resolveTargetForService, ensureManifestDeploymentEntry, and the request  *)
(* helpers of src/src/utils.ts (ensureRegistered, buildAuthFetch,           *)
(* safeRequest, uploadArtifact).                                            *)
(*                                                                          *)
(* Service, target and link names are ordinary identifiers: none of them is *)
(* a property name of Object.prototype ("constructor", "toString", ...) and *)
(* none is an integer-like key, so a lookup services[name] is truthy        *)
(* exactly when name is a declared service and Object.keys keeps the        *)
(* declaration order.                                                       *)
(***************************************************************************)
EXTENDS Integers, Sequences, FiniteSets, TLC

(***************************************************************************)
(* Bounds of the model.                                                    *)
(***************************************************************************)
MaxSortServices == 3
MaxSortLinks == 2
MaxTargets == 2
MaxServices == 2
MaxLinks == 2
\* Remote calls of one run that fail without ending the run.
MaxFaults == 1
\* Runs of the orchestrator on the same manifest file.
MaxRuns == 2
\* Lookup endpoints of discoverNodes and outputs of one lookup response.
MaxEndpoints == 2
MaxOutputs == 2
\* Depth of a path below the build context.
MaxDepth == 2

\* Pool of service names; a manifest declares a prefix of it, in any order.
NamePool == <<"a", "b", "c", "d", "e">>
\* A name that links may mention although no service declares it.
Ghost == "ghost"

VARIABLES
    pc,             \* position of the control flow
    idx,            \* index of the running for-of loop (target, service or link)
    manifest,       \* the in-memory AgentManifestV2 (mutated in place)
    file,           \* agent-manifest.json as it stands on disk
    deployOrder,    \* const deployOrder (agent.ts:1200)
    serviceUrls,    \* const serviceUrls (agent.ts:1201)
    registrations,  \* const registrations (utils.ts:18)
    archives,       \* temp archives in the working directory, by service
    calls,          \* remote requests issued by the current run, in order
    nodeProjects,   \* node side: the projects the nodes created, as <<url, id>>
    received,       \* node side: the services whose archive arrived in the current run
    report,         \* rows of the final table (agent.ts:1334-1343)
    faults,         \* non-fatal request failures of the current run
    abortAt,        \* why the current run returned early, "" if it did not
    lastProbe,      \* body of the response to the probe of the current target
    gpuNodes,       \* const gpuNodes (agent.ts:1133): the URLs of the candidates
    run,            \* number of the current run
    elapsed,        \* waitForServiceReady: Date.now() - start, in ms
    polls,          \* waitForServiceReady: info requests sent so far
    info,           \* waitForServiceReady: the answer to the last info request
    ready,          \* waitForServiceReady: the value returned, "pending" before
    lookup,         \* discoverNodes: the filter and the answers of the endpoints
    discovered,     \* discoverNodes: the value returned and whether it threw
    filePath,       \* tar.create: a path of the build context, as a list of names
    included,       \* tar.create: whether the archive has that path
    publicInfo,     \* probeNodeCapabilities: the URL asked and the answer to the GET
    capabilities    \* probeNodeCapabilities: the value returned and whether it threw

\* The variables of the functions that are also evaluated on their own.
waitVars == <<elapsed, polls, info, ready>>
discoverVars == <<lookup, discovered>>
packVars == <<filePath, included>>
probeVars == <<publicInfo, capabilities>>
unitVars == <<waitVars, discoverVars, packVars, probeVars>>

vars == <<pc, idx, manifest, file, deployOrder, serviceUrls, registrations, archives,
          calls, nodeProjects, received, report, faults, abortAt, lastProbe, gpuNodes, run,
          unitVars>>

(***************************************************************************)
(* Sequence helpers.                                                       *)
(***************************************************************************)
Range(s) == {s[i] : i \in 1..Len(s)}

SeqsUpTo(S, n) == UNION {[1..k -> S] : k \in 0..n}

IsInjective(s) == \A i, j \in 1..Len(s) : s[i] = s[j] => i = j

\* Index of the first occurrence of x in s, 0 when absent.
IndexOf(s, x) ==
    IF x \in Range(s) THEN CHOOSE i \in 1..Len(s) : s[i] = x /\ \A j \in 1..(i - 1) : s[j] # x
    ELSE 0

\* Array.prototype.filter
RECURSIVE Filter(_, _)
Filter(s, keep) ==
    IF s = <<>> THEN <<>>
    ELSE (IF Head(s) \in keep THEN <<Head(s)>> ELSE <<>>) \o Filter(Tail(s), keep)

(***************************************************************************)
(* topologicalSortServices (agent.ts:1049-1090).                           *)
(* names is Object.keys(services); a graph is the pair inDegree, adj.      *)
(***************************************************************************)
EmptyGraph(names) ==
    [inDegree |-> [n \in Range(names) |-> 0], adj |-> [n \in Range(names) |-> <<>>]]

\* AddLink with the edge drawn the wrong way round (from before to).
AddLink_Reversed(g, link) ==
    IF link.to \in DOMAIN g.adj /\ link.from \in DOMAIN g.adj
    THEN [inDegree |-> [g.inDegree EXCEPT ![link.to] = @ + 1],
          adj      |-> [g.adj EXCEPT ![link.from] = Append(@, link.to)]]
    ELSE g

\* One iteration of the loop over links (agent.ts:1063-1068).
AddLink(g, link) ==
    IF link.to \in DOMAIN g.adj /\ link.from \in DOMAIN g.adj
    THEN [inDegree |-> [g.inDegree EXCEPT ![link.from] = @ + 1],
          adj      |-> [g.adj EXCEPT ![link.to] = Append(@, link.from)]]
    ELSE g

RECURSIVE BuildGraph(_, _)
BuildGraph(g, links) ==
    IF links = <<>> THEN g ELSE BuildGraph(AddLink(g, Head(links)), Tail(links))

\* The inner loop over adj[current] (agent.ts:1077-1080); st = [queue, inDegree].
RECURSIVE Relax(_, _)
Relax(st, neighbors) ==
    IF neighbors = <<>> THEN st
    ELSE LET n   == Head(neighbors)
             deg == st.inDegree[n] - 1
         IN  Relax([queue    |-> IF deg = 0 THEN Append(st.queue, n) ELSE st.queue,
                    inDegree |-> [st.inDegree EXCEPT ![n] = deg]],
                   Tail(neighbors))

\* The while loop of Kahn's algorithm (agent.ts:1074-1081).
RECURSIVE Kahn(_, _, _, _)
Kahn(queue, result, inDegree, adj) ==
    IF queue = <<>> THEN result
    ELSE LET current == Head(queue)
             st      == Relax([queue |-> Tail(queue), inDegree |-> inDegree], adj[current])
         IN  Kahn(st.queue, Append(result, current), st.inDegree, adj)

\* The scheduler without its cycle fallback: the partial Kahn result is returned.
topologicalSortServices_NoFallback(names, links) ==
    LET g      == BuildGraph(EmptyGraph(names), links)
        queue  == Filter(names, {n \in Range(names) : g.inDegree[n] = 0})
    IN  Kahn(queue, <<>>, g.inDegree, g.adj)

\* The scheduler returns the services as declared, whatever the links.
topologicalSortServices_Declared(names, links) == names

topologicalSortServices(names, links) ==
    LET g      == BuildGraph(EmptyGraph(names), links)
        queue  == Filter(names, {n \in Range(names) : g.inDegree[n] = 0})
        result == Kahn(queue, <<>>, g.inDegree, g.adj)
    IN  IF Len(result) # Len(names) THEN names ELSE result

(***************************************************************************)
(* Values of the manifest and of the remote responses.                     *)
(***************************************************************************)
NoUrl == ""      \* a missing or empty MandalaCloudURL (falsy)
NoPid == ""      \* a missing or empty projectID (falsy)
NoAlias == ""    \* a service without provider (falsy)
EmptyEnv == [k \in {} |-> ""]

NodeUrls == {"https://n1", "https://n2"}
Registry == "https://overlay.babbage.systems"
TargetNames == <<"t1", "t2", "t3", "t4">>
\* Project IDs a manifest may already carry, by target position.
PresetPids == <<"p1", "p2", "p3", "p4">>
\* Project IDs the nodes hand out, in order of creation.
NodePids == <<"q1", "q2", "q3", "q4", "q5", "q6", "q7", "q8">>

\* target.MandalaCloudURL.replace(/^https?:\/\//, '') (agent.ts:1287)
ProjectDomain(url) ==
    CASE url = "https://n1" -> "n1"
      [] url = "https://n2" -> "n2"
      [] OTHER -> url

\* The URL of a service also carries the name of its target.
ServiceUrl_WithName(target) ==
    "https://agent." \o target.projectID \o "." \o target.name \o "." \o
        ProjectDomain(target.MandalaCloudURL)

\* `https://agent.${target.projectID}.${projectDomain}` (agent.ts:1288)
ServiceUrl(target) ==
    "https://agent." \o target.projectID \o "." \o ProjectDomain(target.MandalaCloudURL)

\* On a shared key the manifest-wide value wins.
MergeEnv_BaseWins(base, over) ==
    [k \in (DOMAIN base) \cup (DOMAIN over) |-> IF k \in DOMAIN base THEN base[k] ELSE over[k]]

\* { ...(manifest.env || {}), ...(svc.env || {}) } (agent.ts:1272)
MergeEnv(base, over) ==
    [k \in (DOMAIN base) \cup (DOMAIN over) |-> IF k \in DOMAIN over THEN over[k] ELSE base[k]]

\* A remote request: ok tells whether the response carried what the caller
\* needs; stage and n (the stage of the run and the index of its loop) are
\* filled in by the action that issues the request.
Call(kind, url, pid, svc, ok, body) ==
    [kind |-> kind, url |-> url, pid |-> pid, svc |-> svc, ok |-> ok, body |-> body,
     stage |-> "", n |-> 0]

At(stage, n, cs) == [i \in 1..Len(cs) |-> [cs[i] EXCEPT !.stage = stage, !.n = n]]

\* serviceUrls[name] (agent.ts:1296, 1340): undefined unless recorded.
UrlOf(urls, name) == IF name \in DOMAIN urls THEN urls[name] ELSE NoUrl

(***************************************************************************)
(* resolveTargetForService (agent.ts:1094-1098): the position of the       *)
(* returned target in manifest.deployments, 0 for undefined.               *)
(***************************************************************************)
\* A service whose alias names no target gets the first target.
FindTarget_OrFirst(deployments, alias) ==
    IF \E i \in 1..Len(deployments) : deployments[i].name = alias
    THEN CHOOSE i \in 1..Len(deployments) :
            /\ deployments[i].name = alias
            /\ \A j \in 1..(i - 1) : deployments[j].name # alias
    ELSE IF Len(deployments) > 0 THEN 1 ELSE 0

FindTarget(deployments, alias) ==
    IF \E i \in 1..Len(deployments) : deployments[i].name = alias
    THEN CHOOSE i \in 1..Len(deployments) :
            /\ deployments[i].name = alias
            /\ \A j \in 1..(i - 1) : deployments[j].name # alias
    ELSE 0

resolveTargetForService(m, serviceName) ==
    IF serviceName \notin Range(m.services) \/ m.provider[serviceName] = NoAlias
    THEN (IF Len(m.deployments) > 0 THEN 1 ELSE 0)
    ELSE FindTarget(m.deployments, m.provider[serviceName])

(***************************************************************************)
(* ensureManifestDeploymentEntry (agent.ts:91-101): the manifest after the *)
(* call and whether the manifest file was written.                         *)
(***************************************************************************)
\* An entry is pushed without a look at the entries that exist.
ensureManifestDeploymentEntry_AlwaysPush(m, cloudUrl, projectID) ==
    [manifest |-> [m EXCEPT !.deployments = Append(@,
                     [name |-> "", MandalaCloudURL |-> cloudUrl,
                      projectID |-> projectID, gpu |-> FALSE])],
     wrote |-> TRUE]

ensureManifestDeploymentEntry(m, cloudUrl, projectID) ==
    IF \E i \in 1..Len(m.deployments) :
          /\ m.deployments[i].MandalaCloudURL = cloudUrl
          /\ m.deployments[i].projectID = projectID
    THEN [manifest |-> m, wrote |-> FALSE]
    ELSE [manifest |-> [m EXCEPT !.deployments = Append(@,
                           [name |-> "", MandalaCloudURL |-> cloudUrl,
                            projectID |-> projectID, gpu |-> FALSE])],
          wrote |-> TRUE]

(***************************************************************************)
(* ensureRegistered (utils.ts:20-40) and buildAuthFetch (utils.ts:67-74):  *)
(* the requests sent, the registration cache afterwards, and whether the   *)
(* process exited. regOk is the outcome of the register request, if sent.  *)
(***************************************************************************)
\* The register request is sent without a look at the cache.
ensureRegistered_NoCache(regs, url, regOk) ==
    IF url = NoUrl THEN [calls |-> <<>>, registrations |-> regs, exit |-> TRUE]
    ELSE [calls |-> <<Call("register", url, NoPid, "", regOk, EmptyEnv)>>,
          registrations |-> IF regOk THEN regs \cup {url} ELSE regs,
          exit |-> ~regOk]

ensureRegistered(regs, url, regOk) ==
    IF url = NoUrl THEN [calls |-> <<>>, registrations |-> regs, exit |-> TRUE]
    ELSE IF url \in regs THEN [calls |-> <<>>, registrations |-> regs, exit |-> FALSE]
    ELSE [calls |-> <<Call("register", url, NoPid, "", regOk, EmptyEnv)>>,
          registrations |-> IF regOk THEN regs \cup {url} ELSE regs,
          exit |-> ~regOk]

buildAuthFetch(regs, url, regOk) == ensureRegistered(regs, url, regOk)

(***************************************************************************)
(* probeNodeCapabilities (config.ts:672-681) on the body of the response   *)
(* of GET /api/v1/public; a field of the body may be missing.              *)
(***************************************************************************)
ProbeBodies == [reachable : {TRUE}, data : {"object"}, gpu : {"missing", "off", "on"},
                schemas : {"missing", "v1", "v1v2"},
                pricing : {"missing", "given"}, runtimes : {"missing", "given"}]
\* The GET failed: no answer, or an answer with an error status.
Unreachable == [reachable |-> FALSE, data |-> "none", gpu |-> "missing",
                schemas |-> "missing", pricing |-> "missing", runtimes |-> "missing"]
\* The GET succeeded and the body is the JSON value null.
NullBody == [reachable |-> TRUE, data |-> "null", gpu |-> "missing",
             schemas |-> "missing", pricing |-> "missing", runtimes |-> "missing"]

ProbeResponses(url) ==
    IF url = NoUrl THEN {Unreachable} ELSE ProbeBodies \cup {NullBody, Unreachable}

\* The pricing and the runtimes of a node that names them.
SomePricing == [cpu |-> "1"]
SomeRuntimes == <<"node">>

\* axios.get rejects (config.ts:673), or a field of a null body is read
\* (config.ts:676).
ProbeThrows(body) == ~body.reachable \/ body.data = "null"

\* The probe reports GPU as enabled whatever the node answered.
probeNodeCapabilities_GpuAlways(url, body) ==
    [url |-> url,
     gpu |-> [enabled |-> TRUE],
     pricing |-> IF body.pricing = "given" THEN SomePricing ELSE EmptyEnv,
     supportedRuntimes |-> IF body.runtimes = "given" THEN SomeRuntimes ELSE <<>>,
     schemaVersionsSupported |->
        CASE body.schemas = "v1v2" -> {"1.0", "2.0"}
          [] body.schemas = "v1" -> {"1.0"}
          [] OTHER -> {"1.0"}]

\* The probe leaves the schema versions empty when the node names none.
probeNodeCapabilities_NoSchemaDefault(url, body) ==
    [url |-> url,
     gpu |-> [enabled |-> (body.gpu = "on")],
     pricing |-> IF body.pricing = "given" THEN SomePricing ELSE EmptyEnv,
     supportedRuntimes |-> IF body.runtimes = "given" THEN SomeRuntimes ELSE <<>>,
     schemaVersionsSupported |->
        CASE body.schemas = "v1v2" -> {"1.0", "2.0"}
          [] body.schemas = "v1" -> {"1.0"}
          [] OTHER -> {}]

\* The value returned when the call does not throw (config.ts:674-680).
probeNodeCapabilities(url, body) ==
    [url |-> url,
     gpu |-> [enabled |-> (body.gpu = "on")],
     pricing |-> IF body.pricing = "given" THEN SomePricing ELSE EmptyEnv,
     supportedRuntimes |-> IF body.runtimes = "given" THEN SomeRuntimes ELSE <<>>,
     schemaVersionsSupported |->
        CASE body.schemas = "v1v2" -> {"1.0", "2.0"}
          [] body.schemas = "v1" -> {"1.0"}
          [] OTHER -> {"1.0"}]

\* What discoverGpuNodes may return: the URLs of the candidate nodes, no URL
\* twice; the URL of a candidate is empty when its record carries none.
DiscoveryResults ==
    {s \in SeqsUpTo(NodeUrls \cup {NoUrl}, 2) : IsInjective(s)}

(***************************************************************************)
(* Inputs of the scheduler.                                                *)
(***************************************************************************)
PoolNames(k) == {NamePool[i] : i \in 1..k}

\* Every declaration order of the first k names of the pool, k <= n.
NameLists(n) ==
    UNION {{s \in [1..k -> PoolNames(k)] : IsInjective(s)} : k \in 0..n}

LinkRecs(ends, envVars) == [from : ends, to : ends, envVar : envVars]

\* A manifest: services holds Object.keys(manifest.services), provider and
\* svcEnv the fields of each ServiceDefinition.
Manifest(services, provider, svcEnv, links, env, deployments) ==
    [services |-> services, provider |-> provider, svcEnv |-> svcEnv,
     links |-> links, env |-> env, deployments |-> deployments]

SortInputs ==
    {Manifest(s, [n \in Range(s) |-> NoAlias], [n \in Range(s) |-> EmptyEnv], l, EmptyEnv, <<>>) :
        s \in NameLists(MaxSortServices),
        l \in SeqsUpTo(LinkRecs(PoolNames(MaxSortServices) \cup {Ghost}, {"E1"}), MaxSortLinks)}

\* Directed edges to -> from between declared services.
Edges(names, links) ==
    {<<links[i].to, links[i].from>> : i \in {j \in 1..Len(links) :
        links[j].to \in Range(names) /\ links[j].from \in Range(names)}}

\* Nodes reachable from the set S in at most k further steps.
RECURSIVE ReachFrom(_, _, _)
ReachFrom(S, E, k) ==
    IF k = 0 THEN S
    ELSE ReachFrom(S \cup {e[2] : e \in {d \in E : d[1] \in S}}, E, k - 1)

HasCycle(names, links) ==
    LET E == Edges(names, links)
    IN  \E e \in E : e[1] \in ReachFrom({e[2]}, E, Len(names))

(***************************************************************************)
(* The scheduler applied to an arbitrary input.                            *)
(***************************************************************************)
NotSorted == <<"?">>
\* No probe response is in scope.
NoProbe == [reachable |-> FALSE, gpu |-> "", schemas |-> "", n |-> 0]

\* No call of waitForServiceReady is under way.
WaitIdle == elapsed = 0 /\ polls = 0 /\ info = "none" /\ ready = "pending"

\* No call of discoverNodes is under way.
DiscoverIdle ==
    /\ lookup = [filter |-> [gpu |-> FALSE, gpuType |-> ""], responses |-> <<>>]
    /\ discovered = [nodes |-> <<>>, raised |-> FALSE]

\* No archive is being made.
PackIdle == filePath = <<>> /\ included = FALSE

\* No call of probeNodeCapabilities on its own is under way.
NoCapabilities == probeNodeCapabilities(NoUrl, Unreachable)
ProbeIdle ==
    /\ publicInfo = [url |-> NoUrl, body |-> Unreachable]
    /\ capabilities = [threw |-> FALSE, value |-> NoCapabilities]

\* The state of a process that has not started a run yet.
Fresh ==
    /\ WaitIdle
    /\ DiscoverIdle
    /\ PackIdle
    /\ ProbeIdle
    /\ idx = 0
    /\ deployOrder = NotSorted
    /\ serviceUrls = EmptyEnv
    /\ registrations = {}
    /\ archives = {}
    /\ calls = <<>>
    /\ nodeProjects = {}
    /\ received = {}
    /\ report = <<>>
    /\ faults = 0
    /\ abortAt = ""
    /\ lastProbe = NoProbe
    /\ gpuNodes = <<>>
    /\ run = 1

InitSort ==
    /\ pc = "sort"
    /\ \E m \in SortInputs : manifest = m /\ file = m
    /\ Fresh

SortServices ==
    /\ pc = "sort"
    /\ deployOrder' = topologicalSortServices(manifest.services, manifest.links)
    /\ pc' = "sorted"
    /\ UNCHANGED <<idx, manifest, file, serviceUrls, registrations, archives, calls,
                   nodeProjects, received, report, faults, abortAt, lastProbe, run>>
    /\ UNCHANGED <<gpuNodes, unitVars>>

NextSort == SortServices

SpecSort == InitSort /\ [][NextSort]_vars

(***************************************************************************)
(* Inputs of a run: the manifest file before the first run.                *)
(***************************************************************************)
Aliases == {NoAlias} \cup {TargetNames[i] : i \in 1..MaxTargets}

\* Every list of at most n targets; the i-th is named TargetNames[i], its URL
\* is drawn from urls[i] and it may carry the project ID PresetPids[i].
TargetLists(n, urls, pidGiven, gpus) ==
    UNION {{[i \in 1..k |-> [name |-> TargetNames[i], MandalaCloudURL |-> u[i],
                             projectID |-> IF hasPid[i] THEN PresetPids[i] ELSE NoPid,
                             gpu |-> g[i]]] :
              u \in {f \in [1..k -> UNION {urls[i] : i \in 1..k}] : \A i \in 1..k : f[i] \in urls[i]},
              hasPid \in [1..k -> pidGiven], g \in [1..k -> gpus]} :
           k \in 0..n}

\* manifest.env and the env of every service.
EnvProfiles ==
    {[env |-> EmptyEnv, svc |-> EmptyEnv],
     [env |-> [k \in {"K1", "K2"} |-> "shared"], svc |-> [k \in {"K2", "K3"} |-> "own"]]}

\* Manifests that vary the deployment targets, with one plain service.
TargetInputs ==
    {Manifest(<<"a">>, [n \in {"a"} |-> NoAlias], [n \in {"a"} |-> EmptyEnv], <<>>, EmptyEnv, d) :
        d \in TargetLists(MaxTargets, [i \in 1..MaxTargets |-> NodeUrls \cup {NoUrl}],
                          BOOLEAN, BOOLEAN)}

\* Links between two different names, declared or not.
RunLinks == {l \in LinkRecs(PoolNames(MaxServices) \cup {Ghost}, {"E1"}) : l.from # l.to}

\* Manifests that vary services, aliases, links and env, on resolved targets
\* of distinct nodes.
ServiceInputs ==
    UNION {{Manifest(s, pr, [n \in Range(s) |-> e.svc], l, e.env, d) :
              pr \in [Range(s) -> Aliases],
              l \in SeqsUpTo(RunLinks, MaxLinks),
              e \in EnvProfiles,
              d \in TargetLists(MaxTargets,
                       [i \in 1..MaxTargets |-> {IF i = 1 THEN "https://n1" ELSE "https://n2"}],
                       {TRUE}, {FALSE}) \ {<<>>}} :
           s \in NameLists(MaxServices) \ {<<>>}}

(***************************************************************************)
(* agentDeployMultiService (agent.ts:1115-1358), one action per remote     *)
(* request or local step.                                                  *)
(***************************************************************************)
Goto(p, i) == pc' = p /\ idx' = i /\ abortAt' = abortAt

\* An early return of agentDeployMultiService.
AbortRun(reason) == pc' = "aborted" /\ idx' = idx /\ abortAt' = reason

\* process.exit(1) in ensureRegistered.
ExitProcess == pc' = "exited" /\ idx' = idx /\ abortAt' = "register"

\* Outcomes of a request whose failure the run survives.
SoftOutcomes == IF faults < MaxFaults THEN BOOLEAN ELSE {TRUE}

Soft(ok) == faults' = IF ok THEN faults ELSE faults + 1

LinkPc == IF Len(manifest.links) > 0 THEN "link" ELSE "report"

\* Manifests of services with any alias, on one target that has no project yet.
UnpreparedInputs ==
    UNION {{Manifest(s, pr, [n \in Range(s) |-> EmptyEnv], <<>>, EmptyEnv, d) :
              pr \in [Range(s) -> Aliases],
              d \in TargetLists(1, [i \in 1..1 |-> {"https://n1"}], {FALSE}, {FALSE}) \ {<<>>}} :
           s \in NameLists(MaxServices) \ {<<>>}}

InitRun ==
    /\ pc = "start"
    /\ \E m \in TargetInputs \cup ServiceInputs \cup UnpreparedInputs :
          manifest = m /\ file = m
    /\ Fresh

\* agent.ts:1116-1125
Start ==
    /\ pc = "start"
    /\ IF Len(manifest.deployments) = 0 THEN AbortRun("notargets") ELSE Goto("validate", 1)
    /\ UNCHANGED <<manifest, file, deployOrder, serviceUrls, registrations, archives,
                   calls, nodeProjects, received, report, faults, run, lastProbe>>
    /\ UNCHANGED <<gpuNodes, unitVars>>

\* Nodes are discovered for every target without URL, GPU or not.
CanDiscover_Always(target) == TRUE

\* target.capabilities?.gpu (agent.ts:1131)
CanDiscover(target) == target.gpu

\* agent.ts:1130-1155: the target has no URL.
Discover ==
    /\ pc = "validate"
    /\ manifest.deployments[idx].MandalaCloudURL = NoUrl
    /\ IF CanDiscover(manifest.deployments[idx])
       THEN \E found \in DiscoveryResults :
              /\ calls' = calls \o At("validate", idx, <<Call("lookup", Registry, NoPid, "", TRUE, EmptyEnv)>>)
              /\ gpuNodes' = found
              /\ IF Len(found) = 0
                 THEN AbortRun("discovery") /\ UNCHANGED manifest
                 ELSE \E chosenIdx \in 1..Len(found) :
                        /\ manifest' = [manifest EXCEPT
                              !.deployments[idx].MandalaCloudURL = found[chosenIdx]]
                        /\ Goto("probe", idx)
       ELSE AbortRun("nourl") /\ UNCHANGED <<calls, manifest, gpuNodes>>
    /\ lastProbe' = NoProbe
    /\ UNCHANGED <<file, deployOrder, serviceUrls, registrations, archives,
                   nodeProjects, received, report, faults, run>>
    /\ UNCHANGED unitVars

\* agent.ts:1157-1170
Probe ==
    /\ \/ pc = "probe"
       \/ pc = "validate" /\ manifest.deployments[idx].MandalaCloudURL # NoUrl
    /\ LET target == manifest.deployments[idx]
       IN  \E body \in ProbeResponses(target.MandalaCloudURL) :
             LET caps == probeNodeCapabilities(target.MandalaCloudURL, body)
             IN  /\ calls' = calls \o At("validate", idx,
                        <<Call("probe", target.MandalaCloudURL, NoPid, "", ~ProbeThrows(body), EmptyEnv)>>)
                 /\ lastProbe' = [reachable |-> ~ProbeThrows(body), gpu |-> body.gpu,
                                  schemas |-> body.schemas, n |-> idx]
                 /\ gpuNodes' = <<>>
                 /\ IF ProbeThrows(body) THEN AbortRun("probe")
                    ELSE IF "2.0" \notin caps.schemaVersionsSupported THEN AbortRun("schema")
                    ELSE IF target.gpu /\ ~caps.gpu.enabled THEN AbortRun("gpu")
                    ELSE IF idx < Len(manifest.deployments) THEN Goto("validate", idx + 1)
                    ELSE Goto("register", 1)
    /\ UNCHANGED <<manifest, file, deployOrder, serviceUrls, registrations, archives,
                   nodeProjects, received, report, faults, run>>
    /\ UNCHANGED unitVars

\* A project is created for every target, also for one that has a project.
NeedsProject_Always(target) == TRUE

\* !target.projectID (agent.ts:1180)
NeedsProject(target) == target.projectID = NoPid

PrepareNext ==
    IF idx < Len(manifest.deployments) THEN Goto("register", idx + 1) ELSE Goto("schedule", 0)

\* agent.ts:1177-1180
Register ==
    /\ pc = "register"
    /\ LET target == manifest.deployments[idx]
       IN  \E regOk \in BOOLEAN :
             LET r == ensureRegistered(registrations, target.MandalaCloudURL, regOk)
             IN  /\ calls' = calls \o At("prepare", idx, r.calls)
                 /\ registrations' = r.registrations
                 /\ IF r.exit THEN ExitProcess
                    ELSE IF NeedsProject(target) THEN Goto("create", idx)
                    ELSE PrepareNext
    /\ lastProbe' = NoProbe
    /\ UNCHANGED <<manifest, file, deployOrder, serviceUrls, archives,
                   nodeProjects, received, report, faults, run>>
    /\ UNCHANGED <<gpuNodes, unitVars>>

\* The answer to the create request is taken whatever it holds.
HasProjectId_Unchecked(result) == TRUE

\* result?.projectId is truthy (agent.ts:1188)
HasProjectId(result) == result = "projectId"

\* agent.ts:1180-1195; result is what safeRequest returned: undefined after a
\* failed request, a body without projectId, or a body with one.
CreateProject ==
    /\ pc = "create"
    /\ LET target == manifest.deployments[idx]
       IN  \E regOk \in BOOLEAN, result \in {"undefined", "empty", "projectId"} :
             LET b      == buildAuthFetch(registrations, target.MandalaCloudURL, regOk)
                 newPid == NodePids[Cardinality(nodeProjects) + 1]
             IN  /\ registrations' = b.registrations
                 /\ IF b.exit
                    THEN /\ ExitProcess
                         /\ calls' = calls \o At("prepare", idx, b.calls)
                         /\ UNCHANGED <<manifest, nodeProjects>>
                    ELSE /\ calls' = calls \o At("prepare", idx, b.calls \o
                              <<Call("create", target.MandalaCloudURL,
                                     IF result = "projectId" THEN newPid ELSE NoPid, "",
                                     result = "projectId", EmptyEnv)>>)
                         /\ nodeProjects' =
                                IF result = "projectId"
                                THEN nodeProjects \cup {<<target.MandalaCloudURL, newPid>>}
                                ELSE nodeProjects
                         /\ IF HasProjectId(result)
                            THEN /\ manifest' = [manifest EXCEPT !.deployments[idx].projectID =
                                        IF result = "projectId" THEN newPid ELSE NoPid]
                                 /\ PrepareNext
                            ELSE /\ AbortRun("create")
                                 /\ UNCHANGED manifest
    /\ UNCHANGED <<file, deployOrder, serviceUrls, archives, received, report, faults, run, lastProbe>>
    /\ UNCHANGED <<gpuNodes, unitVars>>

\* agent.ts:1200-1203
Schedule ==
    /\ pc = "schedule"
    /\ deployOrder' = topologicalSortServices(manifest.services, manifest.links)
    /\ serviceUrls' = EmptyEnv
    /\ IF Len(deployOrder') > 0 THEN Goto("package", 1) ELSE Goto(LinkPc, 1)
    /\ UNCHANGED <<manifest, file, registrations, archives, calls, nodeProjects,
                   received, report, faults, run, lastProbe>>
    /\ UNCHANGED <<gpuNodes, unitVars>>

\* agent.ts:1206-1250: resolve the target, ensureManifestDeploymentEntry, tar.
\* A service without target is left out and the loop goes on.
NoTargetFound_Skip ==
    IF idx < Len(deployOrder) THEN Goto("package", idx + 1) ELSE Goto(LinkPc, 1)

\* return (agent.ts:1207-1210)
NoTargetFound == AbortRun("notarget")

Package ==
    /\ pc = "package"
    /\ LET serviceName == deployOrder[idx]
           t == resolveTargetForService(manifest, serviceName)
       IN  IF t = 0
           THEN NoTargetFound /\ UNCHANGED <<manifest, file, archives>>
           ELSE LET e == ensureManifestDeploymentEntry(manifest,
                            manifest.deployments[t].MandalaCloudURL,
                            manifest.deployments[t].projectID)
                IN  /\ manifest' = e.manifest
                    /\ file' = IF e.wrote THEN e.manifest ELSE file
                    /\ archives' = archives \cup {serviceName}
                    /\ Goto("slot", idx)
    /\ UNCHANGED <<deployOrder, serviceUrls, registrations, calls, nodeProjects,
                   received, report, faults, run, lastProbe>>
    /\ UNCHANGED <<gpuNodes, unitVars>>

\* The run goes on with a slot that has no deployment ID.
SlotUsable_UrlOnly(result) == result \in {"both", "noid"}

\* !(!result?.url || !result?.deploymentId) (agent.ts:1258)
SlotUsable(result) == result = "both"

\* agent.ts:1252-1263; result is what safeRequest returned.
RequestSlot ==
    /\ pc = "slot"
    /\ LET serviceName == deployOrder[idx]
           target == manifest.deployments[resolveTargetForService(manifest, serviceName)]
       IN  \E regOk \in BOOLEAN, result \in {"undefined", "nourl", "noid", "both"} :
             LET b == buildAuthFetch(registrations, target.MandalaCloudURL, regOk)
             IN  /\ registrations' = b.registrations
                 /\ IF b.exit
                    THEN ExitProcess /\ calls' = calls \o At("deploy", idx, b.calls) /\ UNCHANGED archives
                    ELSE /\ calls' = calls \o At("deploy", idx, b.calls \o
                              <<Call("deploy", target.MandalaCloudURL, target.projectID,
                                     serviceName, result = "both", EmptyEnv)>>)
                         /\ IF ~SlotUsable(result)
                            THEN archives' = archives \ {serviceName} /\ AbortRun("slot")
                            ELSE UNCHANGED archives /\ Goto("upload", idx)
    /\ UNCHANGED <<manifest, file, deployOrder, serviceUrls, nodeProjects,
                   received, report, faults, run, lastProbe>>
    /\ UNCHANGED <<gpuNodes, unitVars>>

\* agent.ts:1265-1268 with uploadArtifact (utils.ts:99-115)
Upload ==
    /\ pc = "upload"
    /\ LET serviceName == deployOrder[idx]
           target == manifest.deployments[resolveTargetForService(manifest, serviceName)]
       IN  /\ IF serviceName \in archives
              THEN \E ok \in SoftOutcomes :
                     /\ calls' = calls \o At("deploy", idx,
                            <<Call("upload", target.MandalaCloudURL, target.projectID,
                                   serviceName, ok, EmptyEnv)>>)
                     /\ received' = IF ok THEN received \cup {serviceName}
                                    ELSE received
                     /\ Soft(ok)
              ELSE UNCHANGED <<calls, received, faults>>
           /\ archives' = archives \ {serviceName}
    /\ Goto("env", idx)
    /\ UNCHANGED <<manifest, file, deployOrder, serviceUrls, registrations,
                   nodeProjects, report, run, lastProbe>>
    /\ UNCHANGED <<gpuNodes, unitVars>>

\* agent.ts:1270-1275
SyncEnv ==
    /\ pc = "env"
    /\ LET serviceName == deployOrder[idx]
           target == manifest.deployments[resolveTargetForService(manifest, serviceName)]
           mergedEnv == MergeEnv(manifest.env, manifest.svcEnv[serviceName])
       IN  IF DOMAIN mergedEnv # {}
           THEN \E ok \in SoftOutcomes :
                  /\ calls' = calls \o At("deploy", idx,
                         <<Call("settings", target.MandalaCloudURL, target.projectID,
                                serviceName, ok, mergedEnv)>>)
                  /\ Soft(ok)
           ELSE UNCHANGED <<calls, faults>>
    /\ Goto("wait", idx)
    /\ UNCHANGED <<manifest, file, deployOrder, serviceUrls, registrations, archives,
                   nodeProjects, received, report, run, lastProbe>>
    /\ UNCHANGED <<gpuNodes, unitVars>>

\* A service that is not ready in time ends the run.
AfterWait_AbortNotReady(isReady) ==
    IF ~isReady THEN AbortRun("notready")
    ELSE IF idx < Len(deployOrder) THEN Goto("package", idx + 1)
    ELSE Goto(LinkPc, 1)

\* agent.ts:1279-1283: either branch only prints; the loop goes on.
AfterWait(isReady) ==
    IF idx < Len(deployOrder) THEN Goto("package", idx + 1) ELSE Goto(LinkPc, 1)

\* The URL of a service is recorded only when the service was ready in time.
RecordUrl_OnlyReady(urls, serviceName, target, isReady) ==
    IF isReady
    THEN [n \in (DOMAIN urls) \cup {serviceName} |->
             IF n = serviceName THEN ServiceUrl(target) ELSE urls[n]]
    ELSE urls

\* serviceUrls[serviceName] = ... (agent.ts:1286-1288), after either outcome
\* of the wait
RecordUrl(urls, serviceName, target, isReady) ==
    [n \in (DOMAIN urls) \cup {serviceName} |->
        IF n = serviceName THEN ServiceUrl(target) ELSE urls[n]]

\* agent.ts:1277-1288 with waitForServiceReady (agent.ts:1100-1113); isReady is
\* the value the wait returned.
WaitReady ==
    /\ pc = "wait"
    /\ LET serviceName == deployOrder[idx]
           target == manifest.deployments[resolveTargetForService(manifest, serviceName)]
       IN  \E regOk \in BOOLEAN, isReady \in SoftOutcomes :
             LET b == buildAuthFetch(registrations, target.MandalaCloudURL, regOk)
             IN  /\ registrations' = b.registrations
                 /\ IF b.exit
                    THEN /\ ExitProcess
                         /\ calls' = calls \o At("deploy", idx, b.calls)
                         /\ UNCHANGED <<serviceUrls, faults>>
                    ELSE /\ calls' = calls \o At("deploy", idx, b.calls \o
                              <<Call("info", target.MandalaCloudURL, target.projectID,
                                     serviceName, isReady, EmptyEnv)>>)
                         /\ Soft(isReady)
                         /\ serviceUrls' = RecordUrl(serviceUrls, serviceName, target, isReady)
                         /\ AfterWait(isReady)
    /\ UNCHANGED <<manifest, file, deployOrder, archives, nodeProjects,
                   received, report, run, lastProbe>>
    /\ UNCHANGED <<gpuNodes, unitVars>>

\* The link carries the URL as the name of the variable and the name as its value.
LinkEnv_Swapped(link, toUrl) == [k \in {toUrl} |-> link.envVar]

\* { [link.envVar]: toUrl } (agent.ts:1319, 1324)
LinkEnv(link, toUrl) == [k \in {link.envVar} |-> toUrl]

\* The end of one iteration of the loop over links (agent.ts:1295).
LinkNext == IF idx < Len(manifest.links) THEN Goto("link", idx + 1) ELSE Goto("report", 0)

\* A skipped link ends the whole loop.
LinkContinue_Break == Goto("report", 0)

\* continue (agent.ts:1299, 1305)
LinkContinue == LinkNext

\* The failure of a request of Linking ends the run.
AfterLinkRequest_Throws(ok, step) == IF ok THEN step ELSE AbortRun("link")

\* await safeRequest(...) in Linking (agent.ts:1318, 1323, 1328): the value
\* returned is not looked at, the next statement follows.
AfterLinkRequest(ok, step) == step

\* agent.ts:1295-1320: skip the link, or inject the env var.
LinkInject ==
    /\ pc = "link"
    /\ LET link  == manifest.links[idx]
           toUrl == UrlOf(serviceUrls, link.to)
           ft    == resolveTargetForService(manifest, link.from)
       IN  IF toUrl = NoUrl
           THEN LinkContinue /\ UNCHANGED <<calls, registrations, faults>>
           ELSE IF ft = 0 \/ manifest.deployments[IF ft = 0 THEN 1 ELSE ft].projectID = NoPid
           THEN LinkContinue /\ UNCHANGED <<calls, registrations, faults>>
           ELSE LET fromTarget == manifest.deployments[ft]
                IN  \E regOk \in BOOLEAN, ok \in SoftOutcomes :
                      LET b == buildAuthFetch(registrations, fromTarget.MandalaCloudURL, regOk)
                      IN  /\ registrations' = b.registrations
                          /\ IF b.exit
                             THEN /\ ExitProcess
                                  /\ calls' = calls \o At("link", idx, b.calls)
                                  /\ UNCHANGED faults
                             ELSE /\ calls' = calls \o At("link", idx, b.calls \o
                                       <<Call("settings", fromTarget.MandalaCloudURL,
                                              fromTarget.projectID, link.from, ok,
                                              LinkEnv(link, toUrl))>>)
                                  /\ Soft(ok)
                                  /\ AfterLinkRequest(ok, Goto("linkmeta", idx))
    /\ UNCHANGED <<manifest, file, deployOrder, serviceUrls, archives, nodeProjects,
                   received, report, run, lastProbe>>
    /\ UNCHANGED <<gpuNodes, unitVars>>

\* agent.ts:1322-1325
LinkMeta ==
    /\ pc = "linkmeta"
    /\ LET link == manifest.links[idx]
           fromTarget == manifest.deployments[resolveTargetForService(manifest, link.from)]
       IN  \E ok \in SoftOutcomes :
             /\ calls' = calls \o At("link", idx,
                    <<Call("service-links", fromTarget.MandalaCloudURL, fromTarget.projectID,
                           link.from, ok, LinkEnv(link, UrlOf(serviceUrls, link.to)))>>)
             /\ Soft(ok)
             /\ AfterLinkRequest(ok, Goto("linkrestart", idx))
    /\ UNCHANGED <<manifest, file, deployOrder, serviceUrls, registrations, archives,
                   nodeProjects, received, report, run, lastProbe>>
    /\ UNCHANGED <<gpuNodes, unitVars>>

\* agent.ts:1327-1329
LinkRestart ==
    /\ pc = "linkrestart"
    /\ LET link == manifest.links[idx]
           fromTarget == manifest.deployments[resolveTargetForService(manifest, link.from)]
       IN  \E ok \in SoftOutcomes :
             /\ calls' = calls \o At("link", idx,
                    <<Call("restart", fromTarget.MandalaCloudURL, fromTarget.projectID,
                           link.from, ok, EmptyEnv)>>)
             /\ Soft(ok)
             /\ AfterLinkRequest(ok, LinkNext)
    /\ UNCHANGED <<manifest, file, deployOrder, serviceUrls, registrations, archives,
                   nodeProjects, received, report, run, lastProbe>>
    /\ UNCHANGED <<gpuNodes, unitVars>>

\* One row of the service table (agent.ts:1335-1343).
ReportRow(name) ==
    LET t == resolveTargetForService(manifest, name)
    IN  [service |-> name,
         node    |-> IF t = 0 \/ manifest.deployments[IF t = 0 THEN 1 ELSE t].MandalaCloudURL = NoUrl
                     THEN "-" ELSE manifest.deployments[t].MandalaCloudURL,
         url     |-> IF UrlOf(serviceUrls, name) = NoUrl THEN "-" ELSE UrlOf(serviceUrls, name),
         status  |-> "Deployed"]

\* agent.ts:1332-1357: the tables, then the manifest file is rewritten.
Report ==
    /\ pc = "report"
    /\ report' = [i \in 1..Len(deployOrder) |-> ReportRow(deployOrder[i])]
    /\ file' = manifest
    /\ Goto("done", 0)
    /\ UNCHANGED <<manifest, deployOrder, serviceUrls, registrations, archives, calls,
                   nodeProjects, received, faults, run, lastProbe>>
    /\ UNCHANGED <<gpuNodes, unitVars>>

\* The command is run again, in a new process, on the manifest file
\* (agentDeploy, agent.ts:539-562).
Rerun ==
    /\ pc = "done"
    /\ run < MaxRuns
    /\ run' = run + 1
    /\ manifest' = file
    /\ pc' = "start"
    /\ idx' = 0
    /\ deployOrder' = NotSorted
    /\ serviceUrls' = EmptyEnv
    /\ registrations' = {}
    /\ archives' = {}
    /\ calls' = <<>>
    /\ report' = <<>>
    /\ faults' = 0
    /\ abortAt' = ""
    /\ received' = {}
    /\ lastProbe' = NoProbe
    /\ UNCHANGED <<file, nodeProjects>>
    /\ UNCHANGED <<gpuNodes, unitVars>>

Next ==
    \/ Start
    \/ Discover
    \/ Probe
    \/ Register
    \/ CreateProject
    \/ Schedule
    \/ Package
    \/ RequestSlot
    \/ Upload
    \/ SyncEnv
    \/ WaitReady
    \/ LinkInject
    \/ LinkMeta
    \/ LinkRestart
    \/ Report
    \/ Rerun

Spec == InitRun /\ [][Next]_vars

(***************************************************************************)
(* waitForServiceReady (agent.ts:1100-1113) on its own: the arguments are   *)
(* the URL and the project ID of the only target of the manifest. Time is   *)
(* in milliseconds; every info request returns, after one of Latencies.     *)
(***************************************************************************)
timeoutMs == 300000
PollDelay == 5000
Latencies == {0, 2500, 100000}
\* What the caller sees of an info request: online, not online, or undefined
\* after a failure that safeRequest swallowed.
InfoAnswers == {"online", "offline", "undefined"}

WaitInputs ==
    {Manifest(<<"a">>, [n \in {"a"} |-> NoAlias], [n \in {"a"} |-> EmptyEnv], <<>>, EmptyEnv,
              <<[name |-> "t1", MandalaCloudURL |-> "https://n1", projectID |-> "p1",
                 gpu |-> FALSE]>>)}

InitWait ==
    /\ pc = "wait_enter"
    /\ \E m \in WaitInputs : manifest = m /\ file = m
    /\ registrations \in {{}, {"https://n1"}}
    /\ WaitIdle
    /\ DiscoverIdle
    /\ PackIdle
    /\ ProbeIdle
    /\ idx = 0
    /\ deployOrder = NotSorted
    /\ serviceUrls = EmptyEnv
    /\ archives = {}
    /\ calls = <<>>
    /\ nodeProjects = {}
    /\ received = {}
    /\ report = <<>>
    /\ faults = 0
    /\ abortAt = ""
    /\ lastProbe = NoProbe
    /\ gpuNodes = <<>>
    /\ run = 1

\* The budget is spent one millisecond too late.
Expired_Late(e) == ~(e <= timeoutMs)

\* !(Date.now() - start < timeoutMs) (agent.ts:1105)
Expired(e) == ~(e < timeoutMs)

\* info?.status?.online (agent.ts:1108)
Online(answer) == answer = "online"

\* agent.ts:1101-1103
WaitEnter ==
    /\ pc = "wait_enter"
    /\ \E regOk \in BOOLEAN :
          LET b == buildAuthFetch(registrations, manifest.deployments[1].MandalaCloudURL, regOk)
          IN  /\ registrations' = b.registrations
              /\ calls' = calls \o At("wait", 0, b.calls)
              /\ IF b.exit THEN pc' = "exited" /\ abortAt' = "register"
                 ELSE pc' = "wait_test" /\ abortAt' = abortAt
    /\ UNCHANGED <<idx, manifest, file, deployOrder, serviceUrls, archives, nodeProjects,
                   received, report, faults, lastProbe, gpuNodes, run, unitVars>>

\* agent.ts:1105-1109: the loop condition holds, one info request.
WaitPoll ==
    /\ pc = "wait_test"
    /\ ~Expired(elapsed)
    /\ \E latency \in Latencies, answer \in InfoAnswers :
          /\ elapsed' = elapsed + latency
          /\ polls' = polls + 1
          /\ info' = answer
          /\ IF Online(answer) THEN pc' = "wait_returned" /\ ready' = "true"
             ELSE pc' = "wait_sleep" /\ ready' = ready
    /\ UNCHANGED <<idx, manifest, file, deployOrder, serviceUrls, registrations, archives,
                   calls, nodeProjects, received, report, faults, abortAt, lastProbe, gpuNodes, run,
                   discoverVars, packVars, probeVars>>

\* agent.ts:1110
WaitSleep ==
    /\ pc = "wait_sleep"
    /\ elapsed' = elapsed + PollDelay
    /\ pc' = "wait_test"
    /\ UNCHANGED <<idx, manifest, file, deployOrder, serviceUrls, registrations, archives,
                   calls, nodeProjects, received, report, faults, abortAt, lastProbe, gpuNodes, run,
                   polls, info, ready, discoverVars, packVars, probeVars>>

\* agent.ts:1105, 1112: the loop condition fails.
WaitTimeout ==
    /\ pc = "wait_test"
    /\ Expired(elapsed)
    /\ ready' = "false"
    /\ pc' = "wait_returned"
    /\ UNCHANGED <<idx, manifest, file, deployOrder, serviceUrls, registrations, archives,
                   calls, nodeProjects, received, report, faults, abortAt, lastProbe, gpuNodes, run,
                   elapsed, polls, info, discoverVars, packVars, probeVars>>

NextWait ==
    \/ WaitEnter
    \/ WaitPoll
    \/ WaitSleep
    \/ WaitTimeout

\* The function runs on one event loop: a step that can be taken is taken.
SpecWait == InitWait /\ [][NextWait]_vars /\ WF_vars(NextWait)

(***************************************************************************)
(* discoverNodes (part_000:13-67) on its own. An output of a lookup         *)
(* response is given by the values of fields[1], fields[2] and fields[3];   *)
(* capabilities stands for the JSON fields of the output (fields[3],        *)
(* fields[4]): "bad json" makes JSON.parse throw, "{}" is an empty object   *)
(* and "gpuA" is {"gpu": true, "gpuType": "A"}.                             *)
(***************************************************************************)
Capabilities == {"bad json", "{}", "gpuA"}

\* An output that is null: reading output.fields throws.
NullOutput == [url |-> NoUrl, identityKey |-> "", capabilities |-> "null output"]

Outputs ==
    [url : NodeUrls \cup {NoUrl}, identityKey : {"k1", "k2"}, capabilities : Capabilities]
        \cup {NullOutput}

\* What one endpoint answers: the request throws, resp.data.outputs is no
\* array, or it is an array of outputs.
EndpointResponses ==
    {[status |-> st, outputs |-> <<>>] : st \in {"throw", "no array"}}
        \cup {[status |-> "ok", outputs |-> o] : o \in SeqsUpTo(Outputs, MaxOutputs)}

\* discoverNodes(), discoverGpuNodes() and discoverGpuNodes("B")
Filters ==
    {[gpu |-> FALSE, gpuType |-> ""], [gpu |-> TRUE, gpuType |-> ""],
     [gpu |-> TRUE, gpuType |-> "B"]}

CapGpu(c) == c = "gpuA"
CapGpuType(c) == IF c = "gpuA" THEN "A" ELSE ""

\* The body of the inner try (part_000:35-49): the node is pushed, skipped by
\* a filter, or an exception is thrown.
ParseOutput(output, filter) ==
    IF output.capabilities \in {"null output", "bad json"} THEN "throw"
    ELSE IF filter.gpu /\ ~CapGpu(output.capabilities) THEN "continue"
    ELSE IF filter.gpuType # "" /\ CapGpuType(output.capabilities) # filter.gpuType
    THEN "continue"
    ELSE "push"

\* The exception of a failed request leaves discoverNodes.
EndpointFailed_Rethrow(acc) == [acc EXCEPT !.raised = TRUE]

\* catch { /* Skip unreachable endpoint */ } (part_000:55-57)
EndpointFailed(acc) == acc

\* catch { /* Skip malformed output */ } (part_000:50-52)
OutputMalformed(acc) == acc

\* The loop over resp.data.outputs (part_000:33-53); acc is the array
\* discovered and whether an exception is on its way out.
RECURSIVE ScanOutputs(_, _, _)
ScanOutputs(outputs, filter, acc) ==
    IF outputs = <<>> \/ acc.raised THEN acc
    ELSE LET r    == ParseOutput(Head(outputs), filter)
             next == CASE r = "throw" -> OutputMalformed(acc)
                       [] r = "continue" -> acc
                       [] OTHER -> [acc EXCEPT !.nodes = Append(@, Head(outputs))]
         IN  ScanOutputs(Tail(outputs), filter, next)

\* The loop over lookupEndpoints (part_000:22-58).
RECURSIVE ScanEndpoints(_, _, _)
ScanEndpoints(responses, filter, acc) ==
    IF responses = <<>> \/ acc.raised THEN acc
    ELSE LET resp == Head(responses)
             next == CASE resp.status = "throw" -> EndpointFailed(acc)
                       [] resp.status = "no array" -> acc
                       [] OTHER -> ScanOutputs(resp.outputs, filter, acc)
         IN  ScanEndpoints(Tail(responses), filter, next)

\* The filter keeps the last node of every URL.
RECURSIVE Dedup_LastWins(_)
Dedup_LastWins(nodes) ==
    IF nodes = <<>> THEN <<>>
    ELSE (IF \E i \in 2..Len(nodes) : nodes[i].url = Head(nodes).url THEN <<>>
          ELSE <<Head(nodes)>>) \o Dedup_LastWins(Tail(nodes))

\* The callback of discovered.filter with the set seen (part_000:62-66).
RECURSIVE DedupFrom(_, _)
DedupFrom(nodes, seen) ==
    IF nodes = <<>> THEN <<>>
    ELSE IF Head(nodes).url \in seen THEN DedupFrom(Tail(nodes), seen)
    ELSE <<Head(nodes)>> \o DedupFrom(Tail(nodes), seen \cup {Head(nodes).url})

\* part_000:61-66
Dedup(nodes) == DedupFrom(nodes, {})

discoverNodes(filter, responses) ==
    LET acc == ScanEndpoints(responses, filter, [nodes |-> <<>>, raised |-> FALSE])
    IN  IF acc.raised THEN [nodes |-> <<>>, raised |-> TRUE]
        ELSE [nodes |-> Dedup(acc.nodes), raised |-> FALSE]

InitDiscover ==
    /\ pc = "discover"
    /\ \E m \in WaitInputs : manifest = m /\ file = m
    /\ \E f \in Filters, r \in SeqsUpTo(EndpointResponses, MaxEndpoints) \ {<<>>} :
          lookup = [filter |-> f, responses |-> r]
    /\ discovered = [nodes |-> <<>>, raised |-> FALSE]
    /\ WaitIdle
    /\ PackIdle
    /\ ProbeIdle
    /\ registrations = {}
    /\ idx = 0
    /\ deployOrder = NotSorted
    /\ serviceUrls = EmptyEnv
    /\ archives = {}
    /\ calls = <<>>
    /\ nodeProjects = {}
    /\ received = {}
    /\ report = <<>>
    /\ faults = 0
    /\ abortAt = ""
    /\ lastProbe = NoProbe
    /\ gpuNodes = <<>>
    /\ run = 1

DiscoverNodes ==
    /\ pc = "discover"
    /\ discovered' = discoverNodes(lookup.filter, lookup.responses)
    /\ pc' = "discovered"
    /\ UNCHANGED <<idx, manifest, file, deployOrder, serviceUrls, registrations, archives,
                   calls, nodeProjects, received, report, faults, abortAt, lastProbe, gpuNodes, run,
                   waitVars, lookup, packVars, probeVars>>

NextDiscover == DiscoverNodes

SpecDiscover == InitDiscover /\ [][NextDiscover]_vars

(***************************************************************************)
(* The filter of tar.create (agent.ts:1232-1249) on its own. tar walks the  *)
(* build context from "." and hands the filter "./" followed by the names   *)
(* of the path joined by "/"; below a directory the filter rejected it      *)
(* walks no further.                                                        *)
(***************************************************************************)
excludePatterns ==
    <<"node_modules", ".git", "dist", ".env", "*.tgz", "mandala_artifact_*", "mandala_agent_*">>

\* Names of files and directories of a build context.
PathNames ==
    {"node_modules", ".git", "dist", ".env", "src", "index.js", "distribution",
     "a.tgz", ".tgz", ".tgzrc", "mandala_agent_a_1.tgz", "mandala_artifact_1.tgz"}

Paths == SeqsUpTo(PathNames, MaxDepth) \ {<<>>}

\* String.prototype.startsWith
StartsWith(s, prefix) == Len(s) >= Len(prefix) /\ SubSeq(s, 1, Len(prefix)) = prefix

\* String.prototype.includes, for a single character
Includes(s, c) == \E i \in 1..Len(s) : SubSeq(s, i, i) = c

\* String.prototype.replace(c, ''): the first c is removed.
RemoveFirst(s, c) ==
    IF ~Includes(s, c) THEN s
    ELSE LET i == CHOOSE k \in 1..Len(s) :
                    SubSeq(s, k, k) = c /\ \A j \in 1..(k - 1) : SubSeq(s, j, j) # c
         IN  SubSeq(s, 1, i - 1) \o SubSeq(s, i + 1, Len(s))

\* The names of a path joined by "/", after "./".
RECURSIVE Join(_)
Join(names) ==
    IF Len(names) = 1 THEN names[1]
    ELSE Join(SubSeq(names, 1, Len(names) - 1)) \o "/" \o names[Len(names)]

TarPath(names) == "./" \o Join(names)

\* The body of the loop over excludePatterns (agent.ts:1240-1246).
PatternRejects(pattern, relative) ==
    IF Includes(pattern, "*")
    THEN StartsWith(relative, RemoveFirst(pattern, "*"))
    ELSE relative = pattern \/ StartsWith(relative, pattern \o "/")

\* filter: (filePath) => ... (agent.ts:1238-1248)
ArchiveFilter(path) ==
    LET relative == IF StartsWith(path, "./") THEN SubSeq(path, 3, Len(path)) ELSE path
    IN  \A i \in 1..Len(excludePatterns) : ~PatternRejects(excludePatterns[i], relative)

\* The archive has a path when the filter accepted it and every directory
\* above it.
InArchive(names) ==
    \A k \in 1..Len(names) : ArchiveFilter(TarPath(SubSeq(names, 1, k)))

InitPack ==
    /\ pc = "pack"
    /\ \E m \in WaitInputs : manifest = m /\ file = m
    /\ filePath \in Paths
    /\ included = FALSE
    /\ WaitIdle
    /\ DiscoverIdle
    /\ ProbeIdle
    /\ registrations = {}
    /\ idx = 0
    /\ deployOrder = NotSorted
    /\ serviceUrls = EmptyEnv
    /\ archives = {}
    /\ calls = <<>>
    /\ nodeProjects = {}
    /\ received = {}
    /\ report = <<>>
    /\ faults = 0
    /\ abortAt = ""
    /\ lastProbe = NoProbe
    /\ gpuNodes = <<>>
    /\ run = 1

\* agent.ts:1234-1249
TarCreate ==
    /\ pc = "pack"
    /\ included' = InArchive(filePath)
    /\ pc' = "packed"
    /\ UNCHANGED <<idx, manifest, file, deployOrder, serviceUrls, registrations, archives,
                   calls, nodeProjects, received, report, faults, abortAt, lastProbe, gpuNodes, run,
                   waitVars, discoverVars, filePath, probeVars>>

NextPack == TarCreate

SpecPack == InitPack /\ [][NextPack]_vars

(***************************************************************************)
(* probeNodeCapabilities (config.ts:672-681) on its own: one GET to        *)
(* <url>/api/v1/public, and the value built from the body of the answer.   *)
(***************************************************************************)
InitProbe ==
    /\ pc = "probe_call"
    /\ \E m \in WaitInputs : manifest = m /\ file = m
    /\ \E url \in NodeUrls :
          \E body \in ProbeResponses(url) : publicInfo = [url |-> url, body |-> body]
    /\ capabilities = [threw |-> FALSE, value |-> NoCapabilities]
    /\ WaitIdle
    /\ DiscoverIdle
    /\ PackIdle
    /\ registrations = {}
    /\ idx = 0
    /\ deployOrder = NotSorted
    /\ serviceUrls = EmptyEnv
    /\ archives = {}
    /\ calls = <<>>
    /\ nodeProjects = {}
    /\ received = {}
    /\ report = <<>>
    /\ faults = 0
    /\ abortAt = ""
    /\ lastProbe = NoProbe
    /\ gpuNodes = <<>>
    /\ run = 1

\* config.ts:672-681
ProbeNode ==
    /\ pc = "probe_call"
    /\ capabilities' =
          IF ProbeThrows(publicInfo.body) THEN [threw |-> TRUE, value |-> NoCapabilities]
          ELSE [threw |-> FALSE, value |-> probeNodeCapabilities(publicInfo.url, publicInfo.body)]
    /\ pc' = "probed"
    /\ UNCHANGED <<idx, manifest, file, deployOrder, serviceUrls, registrations, archives,
                   calls, nodeProjects, received, report, faults, abortAt, lastProbe, gpuNodes, run,
                   waitVars, discoverVars, packVars, publicInfo>>

NextProbe == ProbeNode

SpecProbe == InitProbe /\ [][NextProbe]_vars

\* C1: for an acyclic link set the result holds every service exactly once
\* and, for every link between declared services, to comes before from.
C1_SortAcyclic ==
    (pc = "sorted" /\ ~HasCycle(manifest.services, manifest.links)) =>
        /\ Len(deployOrder) = Len(manifest.services)
        /\ Range(deployOrder) = Range(manifest.services)
        /\ IsInjective(deployOrder)
        /\ \A e \in Edges(manifest.services, manifest.links) :
              IndexOf(deployOrder, e[1]) < IndexOf(deployOrder, e[2])

\* A run of the scheduler on an acyclic graph with two edges that had to
\* reorder the declared services.
C1_Witness ==
    /\ pc = "sorted"
    /\ ~HasCycle(manifest.services, manifest.links)
    /\ Cardinality(Edges(manifest.services, manifest.links)) >= 2
    /\ deployOrder # manifest.services

\* C2: when the links between declared services contain a cycle the result
\* is the declared service list, unchanged and in declaration order.
C2_CycleFallback ==
    (pc = "sorted" /\ HasCycle(manifest.services, manifest.links)) =>
        /\ deployOrder = manifest.services
        /\ IsInjective(deployOrder)

\* A cycle through two different services, with a third service that Kahn's
\* loop emitted before it got stuck, declared after a service of the cycle.
C2_Witness ==
    /\ pc = "sorted"
    /\ \E e \in Edges(manifest.services, manifest.links) :
          /\ e[1] # e[2]
          /\ <<e[2], e[1]>> \in Edges(manifest.services, manifest.links)
    /\ \E i \in 2..Len(manifest.services) :
          \A e \in Edges(manifest.services, manifest.links) :
              e[1] # manifest.services[i] /\ e[2] # manifest.services[i]
    /\ deployOrder = manifest.services

(***************************************************************************)
(* Properties of a run.                                                    *)
(***************************************************************************)
CallsWhere(kinds) == {i \in 1..Len(calls) : calls[i].kind \in kinds}

\* Requests that register, create, deploy, upload, update settings or link.
Committing ==
    {"register", "create", "deploy", "upload", "settings", "service-links", "restart"}

\* The node answered a probe in a way the target cannot accept.
ProbeRejects(body, target) ==
    \/ ~body.reachable
    \/ body.schemas # "v1v2"
    \/ target.gpu /\ body.gpu # "on"

\* C3: while targets are being validated, and after a run that aborted in
\* Validating, no registration, project creation, deployment-slot request,
\* upload, settings update or link request has been issued; and a probe whose
\* node is unreachable, lists no schema version 2.0 or lacks a required GPU
\* has aborted the run.
C3_ValidationAllOrNothing ==
    /\ (\/ pc \in {"validate", "probe"}
        \/ pc = "aborted" /\ abortAt \in {"discovery", "nourl", "probe", "schema", "gpu"})
          => CallsWhere(Committing) = {}
    /\ (lastProbe.n # 0 /\ ProbeRejects(lastProbe, manifest.deployments[lastProbe.n]))
          => pc = "aborted" /\ CallsWhere(Committing) = {}

\* The second target is rejected for its missing GPU after the first target,
\* which still needs a project, passed its probe.
C3_Witness ==
    /\ pc = "aborted"
    /\ abortAt = "gpu"
    /\ lastProbe.n = 2
    /\ manifest.deployments[1].projectID = NoPid
    /\ Len(calls) >= 2

\* Project IDs that create-project requests of the current run returned.
CreatedThisRun == {calls[i].pid : i \in {j \in CallsWhere({"create"}) : calls[j].ok}}

\* C4: a run that aborted in Preparing because a project creation failed has
\* created no project on any node and has issued no deployment-slot request,
\* upload or settings update.
C4_PreparingFailFast ==
    (pc = "aborted" /\ abortAt = "create") =>
        /\ CreatedThisRun = {}
        /\ CallsWhere({"deploy", "upload", "settings"}) = {}

\* C5: once a deployment-slot request returned no upload URL or no deployment
\* ID, the temp archive of that service is gone, the run has aborted and that
\* request is the last one of the run: no later service is packaged or
\* deployed, no link is injected and no earlier service gets a rollback.
C5_SlotFailureAborts ==
    \A i \in CallsWhere({"deploy"}) : ~calls[i].ok =>
        /\ i = Len(calls)
        /\ pc = "aborted"
        /\ abortAt = "slot"
        /\ ~ENABLED Next
        /\ archives = {}
        /\ \A j \in 1..Len(calls) :
              /\ calls[j].stage # "link"
              /\ calls[j].stage = "deploy" => calls[j].n <= calls[i].n
        /\ \A k \in (calls[i].n + 1)..Len(deployOrder) : deployOrder[k] \notin received

\* The slot of the second service fails after the first service was uploaded,
\* in a manifest with a link.
C5_Witness ==
    /\ pc = "aborted"
    /\ abortAt = "slot"
    /\ idx = 2
    /\ deployOrder[1] \in received
    /\ Len(manifest.links) > 0
    /\ \E i \in CallsWhere({"deploy"}) : ~calls[i].ok /\ calls[i].svc = deployOrder[2]

\* C6: a failed archive upload is the last request of the run and the run
\* has aborted.
C6_UploadFailureAborts ==
    \A i \in CallsWhere({"upload"}) : ~calls[i].ok => (i = Len(calls) /\ pc = "aborted")

\* The service got a deployment slot and its archive arrived in this run.
ReallyDeployed(name) ==
    /\ \E i \in CallsWhere({"deploy"}) : calls[i].svc = name /\ calls[i].ok
    /\ name \in received

\* C7: the final report shows a service as deployed exactly when its slot was
\* obtained and its archive upload succeeded in this run.
C7_ReportTruthful ==
    pc = "done" =>
        \A r \in 1..Len(report) :
            (report[r].status = "Deployed") <=> ReallyDeployed(report[r].service)

\* The run has ended after Validating.
EndedAfterValidating ==
    \/ pc = "done"
    \/ pc = "aborted" /\ abortAt \in {"create", "notarget", "slot"}

\* C8: after a run that ended in Preparing, Deploying or Reporting the
\* manifest file holds every project ID created during the run and every node
\* URL that discovery filled in.
C8_ManifestRewritten ==
    EndedAfterValidating =>
        /\ \A p \in CreatedThisRun :
              \E i \in 1..Len(file.deployments) : file.deployments[i].projectID = p
        /\ Len(file.deployments) = Len(manifest.deployments)
        /\ \A i \in 1..Len(manifest.deployments) :
              file.deployments[i].MandalaCloudURL = manifest.deployments[i].MandalaCloudURL

AllResolved(deployments) ==
    \A i \in 1..Len(deployments) :
        deployments[i].MandalaCloudURL # NoUrl /\ deployments[i].projectID # NoPid

\* C9: a run whose targets all have a node URL and a project ID issues no
\* create-project request and keeps the targets as they are; the second run
\* on the manifest file of a completed run is such a run.
C9_IdempotentRerun ==
    /\ (pc # "done" /\ AllResolved(file.deployments)) =>
          /\ CallsWhere({"create"}) = {}
          /\ manifest.deployments = file.deployments
    /\ run >= 2 =>
          /\ AllResolved(file.deployments)
          /\ CallsWhere({"create"}) = {}
          /\ manifest.deployments = file.deployments

\* The second run has completed on a manifest whose project the first run
\* created.
C9_Witness ==
    /\ run = 2
    /\ pc = "done"
    /\ nodeProjects # {}
    /\ \E i \in 1..Len(file.deployments) :
          \E p \in nodeProjects : p[2] = file.deployments[i].projectID

\* Requests of Linking made for the j-th link.
LinkCalls(j) == {i \in 1..Len(calls) : calls[i].stage = "link" /\ calls[i].n = j}

\* C10: no request is ever made for a link whose to service has no recorded
\* URL, and when Linking is over every link whose to service has a recorded
\* URL got its settings update, service-links and restart requests.
C10_LinkSkipUnresolved ==
    \A j \in 1..Len(manifest.links) :
        /\ LinkCalls(j) # {} => UrlOf(serviceUrls, manifest.links[j].to) # NoUrl
        /\ (pc \in {"report", "done"} /\ UrlOf(serviceUrls, manifest.links[j].to) # NoUrl) =>
              {calls[i].kind : i \in LinkCalls(j)} = {"settings", "service-links", "restart"}

\* A completed run skipped its first link, whose to is no service, and
\* processed its second link.
C10_Witness ==
    /\ pc = "done"
    /\ Len(manifest.links) = 2
    /\ UrlOf(serviceUrls, manifest.links[1].to) = NoUrl
    /\ LinkCalls(1) = {}
    /\ LinkCalls(2) # {}

\* The requests of Linking, in the order they were issued, without their outcome.
LinkTrace ==
    LET linkCalls == SelectSeq(calls, LAMBDA c : c.stage = "link")
    IN  [i \in 1..Len(linkCalls) |->
            [kind |-> linkCalls[i].kind, url |-> linkCalls[i].url, pid |-> linkCalls[i].pid,
             body |-> linkCalls[i].body, n |-> linkCalls[i].n]]

\* The three requests a link with a recorded to URL is due, none for another link.
LinkDue(j) ==
    LET l     == manifest.links[j]
        toUrl == UrlOf(serviceUrls, l.to)
        t     == manifest.deployments[resolveTargetForService(manifest, l.from)]
        req(kind, body) == [kind |-> kind, url |-> t.MandalaCloudURL, pid |-> t.projectID,
                            body |-> body, n |-> j]
    IN  IF toUrl = NoUrl THEN <<>>
        ELSE <<req("settings", [k \in {l.envVar} |-> toUrl]),
               req("service-links", [k \in {l.envVar} |-> toUrl]),
               req("restart", EmptyEnv)>>

RECURSIVE LinksDue(_)
LinksDue(k) == IF k = 0 THEN <<>> ELSE LinksDue(k - 1) \o LinkDue(k)

IsPrefix(s, t) == Len(s) <= Len(t) /\ SubSeq(t, 1, Len(s)) = s

\* C11: the requests of Linking are, link by link in declaration order and
\* only for the links whose to service has a recorded URL, one settings
\* update carrying the pair (envVar, URL of to), one service-links call and one
\* restart, in that order, all sent to the project of the from service's
\* target; while Linking runs they are a prefix of that sequence, and after
\* Linking they are the whole of it.
C11_LinkingOrder ==
    /\ pc \in {"link", "linkmeta", "linkrestart"} =>
          /\ IsPrefix(LinksDue(idx - 1), LinkTrace)
          /\ IsPrefix(LinkTrace, LinksDue(idx))
    /\ pc \in {"report", "done"} => LinkTrace = LinksDue(Len(manifest.links))

\* A completed run handled two links with a recorded to URL whose from
\* services are deployed on different targets.
C11_Witness ==
    /\ pc = "done"
    /\ Len(manifest.links) = 2
    /\ Len(LinkTrace) = 6
    /\ LinkTrace[1].url # LinkTrace[4].url
    /\ manifest.links[1].to # manifest.links[2].to

\* C12: waitForServiceReady ends, by returning or by the exit of a failed
\* registration; it returns ready exactly when the last info request reported
\* online, never sends a request after that one, returns not-ready only once
\* 300000 ms have elapsed, sends at most 60 info requests, and leaves 5000 ms
\* between the answer to one request and the next request.
C12_WaitTerminates ==
    /\ <>(pc \in {"wait_returned", "exited"})
    /\ [](/\ info = "online" <=> ready = "true"
          /\ ready = "true" => pc = "wait_returned"
          /\ ready = "false" => (pc = "wait_returned" /\ elapsed >= timeoutMs)
          /\ polls <= timeoutMs \div PollDelay
          /\ polls * PollDelay <= elapsed + PollDelay)

\* The wait returned not-ready after 60 info requests that each returned at
\* once, the last of them failed.
C12_Witness ==
    /\ pc = "wait_returned"
    /\ ready = "false"
    /\ polls = 60
    /\ elapsed = timeoutMs
    /\ info = "undefined"

\* Readiness waits of the current run that returned not-ready.
NotReadyWaits == {i \in CallsWhere({"info"}) : ~calls[i].ok}

\* C13: the step that follows a readiness wait never aborts the run and
\* always records the URL of the service; after a wait that returned not-ready
\* the URL of that service is recorded, an abort can only come from a later
\* service, and a run that completes has requested a slot for every service
\* of the deploy order, made every request Linking is due, reported every
\* service and rewritten the manifest file.
C13_NotReadyContinues ==
    /\ [][pc = "wait" =>
            /\ pc' \in {"package", "link", "report"}
            /\ UrlOf(serviceUrls', deployOrder[idx]) # NoUrl]_vars
    /\ [](\A i \in NotReadyWaits :
            /\ UrlOf(serviceUrls, calls[i].svc) # NoUrl
            /\ pc \in {"aborted", "exited"} => idx > calls[i].n
            /\ pc = "done" =>
                  /\ \A k \in 1..Len(deployOrder) :
                        \E j \in CallsWhere({"deploy"}) : calls[j].svc = deployOrder[k] /\ calls[j].ok
                  /\ LinkTrace = LinksDue(Len(manifest.links))
                  /\ Len(report) = Len(deployOrder)
                  /\ file = manifest)

\* A run completed although its first service was not ready in time: the
\* second service was deployed and a link that points at the first service
\* was injected.
C13_Witness ==
    /\ pc = "done"
    /\ Len(deployOrder) = 2
    /\ \E i \in NotReadyWaits : calls[i].svc = deployOrder[1]
    /\ deployOrder[2] \in received
    /\ \E j \in 1..Len(manifest.links) :
          manifest.links[j].to = deployOrder[1] /\ LinkCalls(j) # {}

\* C14: within one process a register request goes only to a URL that has no
\* cache entry at that moment, so no URL gets a second register request after
\* a successful one; the cache holds exactly the URLs whose registration
\* succeeded, and no entry is ever removed.
C14_RegistrationCache ==
    /\ [][\A i \in (Len(calls) + 1)..Len(calls') :
            calls'[i].kind = "register" => calls'[i].url \notin registrations]_vars
    /\ [][run' = run => registrations \subseteq registrations']_vars
    /\ [](/\ \A i, j \in CallsWhere({"register"}) :
                (i < j /\ calls[i].url = calls[j].url) => ~calls[i].ok
          /\ registrations = {calls[i].url : i \in {j \in CallsWhere({"register"}) : calls[j].ok}})

\* A completed run on two targets of the same node, both in need of a
\* project: one register request served the two ensureRegistered calls and
\* every later buildAuthFetch call.
C14_Witness ==
    /\ pc = "done"
    /\ Len(manifest.deployments) = 2
    /\ manifest.deployments[1].MandalaCloudURL = manifest.deployments[2].MandalaCloudURL
    /\ Cardinality(CallsWhere({"register"})) = 1
    /\ Cardinality(CallsWhere({"create"})) = 2
    /\ CallsWhere({"info"}) # {}

\* The stages of a run, in the order of agentDeployMultiService.
StageRank(stage) ==
    CASE stage = "validate" -> 1
      [] stage = "prepare" -> 2
      [] stage = "deploy" -> 3
      [] stage = "link" -> 4
      [] OTHER -> 0

\* C15: in the requests of a run, in the order they were issued, the stages
\* never go back and within a stage the loop index never goes back; lookups
\* and probes belong to Validating, registrations and project creations to
\* Preparing, slot requests, uploads and readiness polls to Deploying; the
\* k-th service deployed is the k-th of the scheduler's order and its slot is
\* requested only after the wait for the service before it was made; Linking
\* starts only after the wait for the last service; and for an acyclic link
\* set the slot of a from service is requested only after the wait for its to
\* service.
C15_Sequential ==
    /\ \A i, j \in 1..Len(calls) : i < j =>
          /\ StageRank(calls[i].stage) <= StageRank(calls[j].stage)
          /\ calls[i].stage = calls[j].stage => calls[i].n <= calls[j].n
    /\ \A i \in 1..Len(calls) :
          /\ StageRank(calls[i].stage) > 0
          /\ calls[i].kind \in {"lookup", "probe"} <=> calls[i].stage = "validate"
          /\ calls[i].kind \in {"register", "create"} <=> calls[i].stage = "prepare"
          /\ calls[i].kind \in {"deploy", "upload", "info"} => calls[i].stage = "deploy"
          /\ calls[i].kind \in {"service-links", "restart"} => calls[i].stage = "link"
          /\ calls[i].stage = "deploy" => calls[i].svc = deployOrder[calls[i].n]
    /\ \A j \in CallsWhere({"deploy"}) : calls[j].n > 1 =>
          \E i \in CallsWhere({"info"}) : i < j /\ calls[i].n = calls[j].n - 1
    /\ \A j \in 1..Len(calls) : calls[j].stage = "link" =>
          \E i \in CallsWhere({"info"}) : i < j /\ calls[i].n = Len(deployOrder)
    /\ ~HasCycle(manifest.services, manifest.links) =>
          \A e \in Edges(manifest.services, manifest.links) :
              \A j \in CallsWhere({"deploy"}) : calls[j].svc = e[2] =>
                  \E i \in CallsWhere({"info"}) : i < j /\ calls[i].svc = e[1]

\* A completed run that probed and registered its targets, deployed the to
\* service of an acyclic link before the from service, which is declared
\* first, and linked them.
C15_Witness ==
    /\ pc = "done"
    /\ Len(manifest.services) = 2
    /\ deployOrder # manifest.services
    /\ ~HasCycle(manifest.services, manifest.links)
    /\ \A k \in {"probe", "register", "deploy", "upload", "info", "settings", "restart"} :
          CallsWhere({k}) # {}
    /\ Cardinality(CallsWhere({"deploy"})) = 2

\* The positions <<endpoint, output>> of the outputs the endpoints returned.
OutputPositions ==
    {p \in (1..Len(lookup.responses)) \X (1..MaxOutputs) :
        p[2] <= Len(lookup.responses[p[1]].outputs)}

OutputAt(p) == lookup.responses[p[1]].outputs[p[2]]

\* Endpoints in configured order, outputs in response order.
Earlier(p, q) == p[1] < q[1] \/ (p[1] = q[1] /\ p[2] < q[2])

\* The output can be parsed and passes the filter of the call.
Accepted(output) ==
    /\ output.capabilities \in {"{}", "gpuA"}
    /\ lookup.filter.gpu => output.capabilities = "gpuA"
    /\ lookup.filter.gpuType # "" => lookup.filter.gpuType = "A" /\ output.capabilities = "gpuA"

AcceptedPositions == {p \in OutputPositions : Accepted(OutputAt(p))}

\* C16: the list discoverNodes returns has no two nodes with the same URL,
\* and each of its nodes carries the field values of the earliest accepted
\* output with that URL, endpoints taken in configured order and outputs in
\* response order.
C16_DiscoveryDedup ==
    pc = "discovered" =>
        LET nodes == discovered.nodes
        IN  /\ \A i, j \in 1..Len(nodes) : nodes[i].url = nodes[j].url => i = j
            /\ \A i \in 1..Len(nodes) :
                  \E p \in AcceptedPositions :
                      /\ OutputAt(p) = nodes[i]
                      /\ \A q \in AcceptedPositions :
                            OutputAt(q).url = nodes[i].url => ~Earlier(q, p)

\* Two endpoints returned an accepted output for the same URL with different
\* identity keys, and the result has the node of the first endpoint.
C16_Witness ==
    /\ pc = "discovered"
    /\ \E p, q \in AcceptedPositions :
          /\ p[1] < q[1]
          /\ OutputAt(p).url = OutputAt(q).url
          /\ OutputAt(p).identityKey # OutputAt(q).identityKey
          /\ discovered.nodes = <<OutputAt(p)>>

\* C17: discoverNodes throws nothing; the URL of every accepted output of
\* every endpoint is in the result, whatever failed requests and malformed
\* outputs came before or after it; and the result is the empty list when the
\* request of every endpoint failed.
C17_DiscoveryResilient ==
    pc = "discovered" =>
        /\ ~discovered.raised
        /\ \A p \in AcceptedPositions :
              \E i \in 1..Len(discovered.nodes) : discovered.nodes[i].url = OutputAt(p).url
        /\ (\A e \in 1..Len(lookup.responses) : lookup.responses[e].status = "throw")
              => discovered.nodes = <<>>

\* The request of the first endpoint failed and the second endpoint returned
\* a malformed output before a valid one, which is the result.
C17_Witness ==
    /\ pc = "discovered"
    /\ Len(lookup.responses) = 2
    /\ lookup.responses[1].status = "throw"
    /\ Len(lookup.responses[2].outputs) = 2
    /\ lookup.responses[2].outputs[1].capabilities \in {"bad json", "null output"}
    /\ discovered.nodes = <<lookup.responses[2].outputs[2]>>

\* The last name of the path ends in .tgz.
EndsInTgz(names) ==
    LET name == names[Len(names)]
    IN  Len(name) >= 4 /\ SubSeq(name, Len(name) - 3, Len(name)) = ".tgz"

\* The path is, or lies below, an entry of the context root that an exclude
\* pattern names: a plain pattern names the entry of that name, *.tgz the
\* entries that end in .tgz and a pattern that ends in * the entries that
\* start with what precedes the *.
MatchesExclude(names) ==
    \/ names[1] \in {"node_modules", ".git", "dist", ".env"}
    \/ EndsInTgz(names)
    \/ EndsInTgz(<<names[1]>>)
    \/ StartsWith(names[1], "mandala_artifact_")
    \/ StartsWith(names[1], "mandala_agent_")

\* C18: the archive has neither node_modules of the build context nor any
\* path below it, has no file whose name ends in .tgz, and has every path
\* that matches no exclude pattern.
C18_PackagerExclusion ==
    pc = "packed" =>
        /\ filePath[1] = "node_modules" => ~included
        /\ EndsInTgz(filePath) => ~included
        /\ ~MatchesExclude(filePath) => included

\* The run has not got beyond Validating.
InValidating ==
    \/ pc \in {"start", "validate", "probe"}
    \/ pc = "aborted" /\ abortAt \in {"notargets", "discovery", "nourl", "probe", "schema", "gpu"}

\* C19: a run whose manifest file declares a target without node URL and
\* without GPU requirement never gets beyond that target in Validating and
\* commits nothing; a run aborts for a missing URL only at such a target, and
\* for a failed discovery only at a GPU target without URL whose discovery
\* returned no candidate, with that target left without URL and nothing committed;
\* and a URL is filled in only for a declared GPU target without URL, with
\* the URL of one of the discovered candidates.
C19_NoUrlAborts ==
    /\ \A i \in 1..Len(file.deployments) :
          (file.deployments[i].MandalaCloudURL = NoUrl /\ ~file.deployments[i].gpu) =>
              /\ InValidating
              /\ pc \in {"validate", "probe"} => idx <= i
              /\ CallsWhere(Committing) = {} /\ received = {}
    /\ (pc = "aborted" /\ abortAt \in {"nourl", "discovery"}) =>
          /\ manifest.deployments[idx].MandalaCloudURL = NoUrl
          /\ manifest.deployments[idx].gpu <=> abortAt = "discovery"
          /\ gpuNodes = <<>>
          /\ CallsWhere(Committing) = {} /\ received = {}
    /\ pc = "probe" =>
          /\ gpuNodes # <<>>
          /\ manifest.deployments[idx].MandalaCloudURL \in Range(gpuNodes)
    /\ \A i \in 1..Len(file.deployments) :
          manifest.deployments[i].MandalaCloudURL # file.deployments[i].MandalaCloudURL =>
              file.deployments[i].MandalaCloudURL = NoUrl /\ file.deployments[i].gpu

\* The run aborted at its second target, which has neither URL nor GPU
\* requirement, after discovery had filled in the URL of its first target.
C19_Witness ==
    /\ pc = "aborted"
    /\ abortAt = "nourl"
    /\ idx = 2
    /\ file.deployments[1].MandalaCloudURL = NoUrl
    /\ manifest.deployments[1].MandalaCloudURL \in NodeUrls
    /\ CallsWhere({"lookup"}) # {}

\* The positions of the declared targets named alias.
TargetsNamed(alias) ==
    {i \in 1..Len(manifest.deployments) : manifest.deployments[i].name = alias}

\* C20: for every declared service, resolveTargetForService returns the
\* first declared target when the service has no provider alias, a target
\* named as the alias when there is one, and nothing when no target has that
\* name; and every request made for a service in Deploying went to the node
\* and the project of that target.
C20_ResolveTarget ==
    /\ \A name \in Range(manifest.services) :
          LET t     == resolveTargetForService(manifest, name)
              alias == manifest.provider[name]
          IN  /\ (alias = NoAlias /\ Len(manifest.deployments) > 0) => t = 1
              /\ (alias # NoAlias /\ TargetsNamed(alias) # {}) => t \in TargetsNamed(alias)
              /\ (alias # NoAlias /\ TargetsNamed(alias) = {}) => t = 0
    /\ \A i \in 1..Len(calls) : calls[i].stage = "deploy" =>
          LET alias == manifest.provider[calls[i].svc]
          IN  \E t \in (IF alias = NoAlias THEN {1} ELSE TargetsNamed(alias)) :
                 /\ calls[i].url = manifest.deployments[t].MandalaCloudURL
                 /\ calls[i].pid = manifest.deployments[t].projectID

\* A completed run deployed a service without alias to the first target and
\* a service with the alias of the second target to the second target.
C20_Witness ==
    /\ pc = "done"
    /\ Len(manifest.deployments) = 2
    /\ \E i, j \in CallsWhere({"deploy"}) :
          /\ manifest.provider[calls[i].svc] = NoAlias
          /\ calls[i].url = manifest.deployments[1].MandalaCloudURL
          /\ manifest.provider[calls[j].svc] = manifest.deployments[2].name
          /\ calls[j].url = manifest.deployments[2].MandalaCloudURL
          /\ calls[i].url # calls[j].url

\* C21: no step of a run changes the services, their providers and env, the
\* links or the shared env of the manifest, or the number, order, names and
\* GPU requirements of its targets; a node URL changes only where it was
\* missing, in Validating, and a project ID only where it was missing, in
\* the project creation of Preparing.
C21_ManifestFrame ==
    [][run' = run =>
        /\ manifest'.services = manifest.services
        /\ manifest'.provider = manifest.provider
        /\ manifest'.svcEnv = manifest.svcEnv
        /\ manifest'.links = manifest.links
        /\ manifest'.env = manifest.env
        /\ Len(manifest'.deployments) = Len(manifest.deployments)
        /\ \A i \in 1..Len(manifest.deployments) :
              LET old == manifest.deployments[i]
                  new == manifest'.deployments[i]
              IN  /\ new.name = old.name /\ new.gpu = old.gpu
                  /\ new.MandalaCloudURL # old.MandalaCloudURL =>
                        (old.MandalaCloudURL = NoUrl /\ old.gpu /\ pc = "validate")
                  /\ new.projectID # old.projectID =>
                        (old.projectID = NoPid /\ pc = "create")]_vars

\* A run that filled in the URL and the project ID of its first target has
\* deployed its service and is about to report.
C21_Witness ==
    /\ pc = "report"
    /\ run = 1
    /\ file.deployments[1].MandalaCloudURL = NoUrl
    /\ file.deployments[1].projectID = NoPid
    /\ manifest.deployments[1].MandalaCloudURL # NoUrl
    /\ manifest.deployments[1].projectID # NoPid
    /\ CallsWhere({"deploy"}) # {}

\* The links whose from and to differ.
NoSelfLoops(links) == SelectSeq(links, LAMBDA l : l.from # l.to)

\* C22: when the links other than self-loops are acyclic, the result holds
\* every service exactly once and, for every link between two different
\* declared services, to comes before from.
C22_SelfLoopIgnored ==
    (pc = "sorted" /\ ~HasCycle(manifest.services, NoSelfLoops(manifest.links))) =>
        /\ Len(deployOrder) = Len(manifest.services)
        /\ Range(deployOrder) = Range(manifest.services)
        /\ IsInjective(deployOrder)
        /\ \A e \in Edges(manifest.services, NoSelfLoops(manifest.links)) :
              IndexOf(deployOrder, e[1]) < IndexOf(deployOrder, e[2])

\* Settings updates of Deploying.
EnvCalls == {i \in CallsWhere({"settings"}) : calls[i].stage = "deploy"}

\* C23: every settings update of Deploying carries, for the service it is
\* made for, the keys of the manifest-wide env and of the service's env, with
\* the service's value on the keys the service has and the manifest-wide
\* value on the others; it goes to the node and project of the service's
\* target, after the upload of that service and before its readiness poll;
\* and a service whose merged env has a key gets exactly one such update
\* before its readiness poll.
C23_EnvMerge ==
    /\ \A i \in EnvCalls :
          LET name   == calls[i].svc
              own    == manifest.svcEnv[name]
              target == manifest.deployments[resolveTargetForService(manifest, name)]
          IN  /\ DOMAIN calls[i].body = (DOMAIN manifest.env) \cup (DOMAIN own)
              /\ \A k \in DOMAIN calls[i].body :
                    calls[i].body[k] = IF k \in DOMAIN own THEN own[k] ELSE manifest.env[k]
              /\ calls[i].url = target.MandalaCloudURL
              /\ calls[i].pid = target.projectID
              /\ \E j \in CallsWhere({"upload"}) : j < i /\ calls[j].n = calls[i].n
              /\ \A j \in CallsWhere({"info"}) : calls[j].n = calls[i].n => i < j
    /\ \A j \in CallsWhere({"info"}) :
          LET name == calls[j].svc
          IN  Cardinality({i \in EnvCalls : calls[i].n = calls[j].n}) =
                 IF (DOMAIN manifest.env) \cup (DOMAIN manifest.svcEnv[name]) = {} THEN 0 ELSE 1

\* A completed run pushed an env in which the service overrides one key of
\* the manifest-wide env and each map adds a key of its own.
C23_Witness ==
    /\ pc = "done"
    /\ \E i \in EnvCalls :
          /\ DOMAIN calls[i].body = {"K1", "K2", "K3"}
          /\ calls[i].body["K1"] = "shared"
          /\ calls[i].body["K2"] = "own"
          /\ manifest.env["K2"] = "shared"

\* Requests of Linking that failed.
FailedLinkCalls == {i \in 1..Len(calls) : calls[i].stage = "link" /\ ~calls[i].ok}

\* C24: no step of Linking aborts or ends the run, whatever its request
\* returned; after a failed request of Linking the run is still going or has
\* completed, and when it has completed every link with a recorded to URL has
\* its three requests, every service has its report row and the manifest
\* file is the manifest of the run.
C24_LinkFailureContinues ==
    /\ [][(pc \in {"link", "linkmeta", "linkrestart"}) =>
            (pc' \in {"link", "linkmeta", "linkrestart", "report"})]_vars
    /\ [](FailedLinkCalls # {} =>
            /\ pc \in {"link", "linkmeta", "linkrestart", "report", "done"}
            /\ abortAt = ""
            /\ pc = "done" =>
                  /\ \A j \in 1..Len(manifest.links) :
                        UrlOf(serviceUrls, manifest.links[j].to) # NoUrl =>
                            Cardinality(LinkCalls(j)) = 3
                  /\ {report[r].service : r \in 1..Len(report)} = Range(deployOrder)
                  /\ file = manifest)

\* A completed run whose settings update for the first of two links failed
\* and whose second link still got its requests.
C24_Witness ==
    /\ pc = "done"
    /\ Len(manifest.links) = 2
    /\ \E i \in FailedLinkCalls : calls[i].n = 1 /\ calls[i].kind = "settings"
    /\ Cardinality(LinkCalls(1)) = 3
    /\ Cardinality(LinkCalls(2)) = 3

\* The value the probe returned carries the defaults of the fields that the
\* body of the answer does not have, except for the schema versions.
ProbeDefaults(body, value) ==
    /\ body.gpu = "missing" => ~value.gpu.enabled
    /\ body.pricing = "missing" => value.pricing = EmptyEnv
    /\ body.runtimes = "missing" => value.supportedRuntimes = <<>>

\* C25 as stated: the probe returns a value whenever the GET succeeds and
\* throws only when it fails, and in the value returned GPU is disabled,
\* pricing is empty, the runtimes are empty and the schema versions are empty
\* when the body of the answer does not have the field.
C25_ProbeDefaultsEmpty ==
    pc = "probed" =>
        /\ capabilities.threw <=> ~publicInfo.body.reachable
        /\ ~capabilities.threw =>
              /\ ProbeDefaults(publicInfo.body, capabilities.value)
              /\ publicInfo.body.schemas = "missing" =>
                    capabilities.value.schemaVersionsSupported = {}

\* C25, amended: the probe returns a value whenever the GET succeeds with a
\* body that is not null, and throws when the GET fails or the body is null;
\* in the value returned GPU is disabled, pricing is empty and the runtimes
\* are empty when the body does not have the field, and the schema versions
\* are the single version "1.0" when the body names none.
C25_ProbeDefaults ==
    pc = "probed" =>
        /\ capabilities.threw <=> (~publicInfo.body.reachable \/ publicInfo.body.data = "null")
        /\ ~capabilities.threw =>
              /\ capabilities.value.url = publicInfo.url
              /\ ProbeDefaults(publicInfo.body, capabilities.value)
              /\ publicInfo.body.schemas = "missing" =>
                    capabilities.value.schemaVersionsSupported = {"1.0"}

\* The GET succeeded with a body that has none of the four fields, and the
\* probe returned.
C25_Witness ==
    /\ pc = "probed"
    /\ ~capabilities.threw
    /\ publicInfo.body.gpu = "missing" /\ publicInfo.body.schemas = "missing"
    /\ publicInfo.body.pricing = "missing" /\ publicInfo.body.runtimes = "missing"

\* Preparing has completed: the run is in Deploying, Linking or Reporting, has
\* completed, or has returned early from Deploying.
PastPreparing ==
    \/ pc \in {"schedule", "package", "slot", "upload", "env", "wait",
               "link", "linkmeta", "linkrestart", "report", "done"}
    \/ pc = "aborted" /\ abortAt \in {"notarget", "slot"}

\* C26: once Preparing has completed, in every later state of the run every
\* declared target has a node URL and a project ID, and neither of the two
\* changes any more.
C26_TargetsResolved ==
    /\ [](PastPreparing => AllResolved(manifest.deployments))
    /\ [][(PastPreparing /\ PastPreparing') =>
              (manifest.deployments' = manifest.deployments)]_vars

\* A run is about to report with a target that the manifest file declares
\* without node URL and without project ID.
C26_Witness ==
    /\ pc = "report"
    /\ \E i \in 1..Len(file.deployments) :
          /\ file.deployments[i].MandalaCloudURL = NoUrl
          /\ file.deployments[i].projectID = NoPid
          /\ manifest.deployments[i].MandalaCloudURL # NoUrl
          /\ manifest.deployments[i].projectID # NoPid

\* C27: no settings update, service-links request or restart is ever made for
\* a link whose from is not a declared service.
C27_LinkOnlyDeclared ==
    \A j \in 1..Len(manifest.links) :
        manifest.links[j].from \notin Range(manifest.services) =>
            \A i \in LinkCalls(j) : calls[i].kind \notin {"settings", "service-links", "restart"}

\* The target a declared service resolves to.
TargetOf(name) == manifest.deployments[resolveTargetForService(manifest, name)]

\* A node URL without its "https://".
Domain(url) == SubSeq(url, Len("https://") + 1, Len(url))

\* Two declared services resolve to the same target.
SameTarget(a, b) ==
    /\ a \in Range(manifest.services) /\ b \in Range(manifest.services)
    /\ resolveTargetForService(manifest, a) = resolveTargetForService(manifest, b)

\* C28: the URL recorded for a service is https://agent.<projectID>.<domain>
\* with the project ID and the node domain of its target; two services whose
\* targets have the same project ID and node URL have the same recorded URL;
\* and the settings update made for a link between two services of one target
\* carries, for the from service, a URL equal to the from service's own.
C28_UrlByTarget ==
    /\ \A name \in DOMAIN serviceUrls :
          serviceUrls[name] = "https://agent." \o TargetOf(name).projectID \o "." \o
                                  Domain(TargetOf(name).MandalaCloudURL)
    /\ \A a \in DOMAIN serviceUrls, b \in DOMAIN serviceUrls :
          (/\ TargetOf(a).projectID = TargetOf(b).projectID
           /\ TargetOf(a).MandalaCloudURL = TargetOf(b).MandalaCloudURL) =>
              serviceUrls[a] = serviceUrls[b]
    /\ \A j \in 1..Len(manifest.links) :
          SameTarget(manifest.links[j].from, manifest.links[j].to) =>
              \A i \in LinkCalls(j) :
                  calls[i].kind = "settings" =>
                      calls[i].body[manifest.links[j].envVar] =
                          UrlOf(serviceUrls, manifest.links[j].from)

\* A run has completed in which a link between two different services of one
\* target got its settings update.
C28_Witness ==
    /\ pc = "done"
    /\ \E j \in 1..Len(manifest.links) :
          /\ manifest.links[j].from # manifest.links[j].to
          /\ SameTarget(manifest.links[j].from, manifest.links[j].to)
          /\ \E i \in LinkCalls(j) : calls[i].kind = "settings" /\ calls[i].ok

\* The positions in the deploy order of the services whose provider alias
\* names no declared target.
Untargeted ==
    {k \in 1..Len(deployOrder) : resolveTargetForService(manifest, deployOrder[k]) = 0}

\* The run took the service through its slot request, its upload and its
\* wait, and recorded its URL.
WentThroughDeploy(name) ==
    /\ \E i \in CallsWhere({"deploy"}) : calls[i].svc = name /\ calls[i].ok
    /\ \E i \in CallsWhere({"upload"}) : calls[i].svc = name
    /\ name \in DOMAIN serviceUrls

\* C29: no deployment-slot request is ever made for a service whose provider
\* alias names no declared target, or for a service after it in the deploy
\* order; the run aborts at the first such service, with no request of
\* Linking made and the manifest file as it was, since the file changes only
\* in the step that completes a run; every service before it in the order has
\* gone through its slot request, upload and wait, and nothing follows the
\* abort that could undo them.
C29_NoTargetAborts ==
    /\ [](\A i \in CallsWhere({"deploy", "upload", "info"}) :
              \A k \in Untargeted : calls[i].stage = "deploy" => calls[i].n < k)
    /\ []((Untargeted # {} /\ PastPreparing /\ pc # "schedule") =>
              /\ pc \in {"package", "slot", "upload", "env", "wait", "aborted"}
              /\ pc # "aborted" => \A k \in Untargeted : idx < k \/ (idx = k /\ pc = "package")
              /\ LinkTrace = <<>>)
    /\ []((pc = "aborted" /\ abortAt = "notarget") =>
              /\ idx \in Untargeted /\ \A k \in Untargeted : idx <= k
              /\ \A h \in 1..(idx - 1) : WentThroughDeploy(deployOrder[h])
              /\ \A p \in CreatedThisRun :
                    \A i \in 1..Len(file.deployments) : file.deployments[i].projectID # p)
    /\ [][(pc' # "done" => file' = file) /\ pc # "aborted"]_vars

\* The second service of the deploy order names a target that is not
\* declared; the run aborted there after the archive of the first service had
\* arrived at its node, and a project created in this run is not in the file.
C29_Witness ==
    /\ pc = "aborted" /\ abortAt = "notarget"
    /\ idx = 2
    /\ deployOrder[1] \in received
    /\ CreatedThisRun # {}

\* The run is in Linking or beyond.
ReachedLinking == pc \in {"link", "linkmeta", "linkrestart", "report", "done"}

\* C30: when a run is in Linking or beyond, every declared service is in the
\* deploy order and every service of the deploy order has a recorded URL, so
\* a link whose to has no recorded URL, the only links skipped as unresolved,
\* names as to a service that is not declared.
C30_AllUrlsRecorded ==
    ReachedLinking =>
        /\ Range(manifest.services) \subseteq Range(deployOrder)
        /\ \A k \in 1..Len(deployOrder) : UrlOf(serviceUrls, deployOrder[k]) # NoUrl
        /\ \A j \in 1..Len(manifest.links) :
              UrlOf(serviceUrls, manifest.links[j].to) = NoUrl =>
                  manifest.links[j].to \notin Range(manifest.services)

\* A run of two services has completed; one of them was not ready in time,
\* a link to it got its requests, and a link to an undeclared service got none.
C30_Witness ==
    /\ pc = "done"
    /\ Len(deployOrder) = 2
    /\ \E j \in 1..Len(manifest.links), w \in NotReadyWaits :
          /\ manifest.links[j].to = calls[w].svc
          /\ LinkCalls(j) # {}
    /\ \E j \in 1..Len(manifest.links) :
          /\ manifest.links[j].to \notin Range(manifest.services)
          /\ LinkCalls(j) = {}

====
